---------------------------- MODULE Spec2Model ----------------------------
(***************************************************************************)
(* A model of actsnclass: the query strategies of query_strategies.py and  *)
(* the Bazin feature extraction of fit_lightcurves.py.                     *)
(*                                                                         *)
(* Conventions.                                                            *)
(*  - Probabilities are integers in percent (0.4 is 40), so the decision   *)
(*    boundary 0.5 is 50 and a distance |p - 0.5| is |p - 50|.             *)
(*  - numpy arrays are sequences; a row index is the 0-based index the     *)
(*    code uses, so row i of an array a is a[i + 1].                       *)
(*  - A float is represented by what str() gives for it ("1.0", "nan",     *)
(*    "inf", "-inf"): line 197 of fit_lightcurves.py tests str(item).      *)
(***************************************************************************)
EXTENDS Integers, Sequences, FiniteSets, TLC

VARIABLES
    \* ---- arguments shared by the two query strategies
    test_ids,       \* ids of the pool, one per row
    queryable_ids,  \* set of ids available for querying
    \* ---- uncertainty_sampling
    class_prob,     \* rows <<P(class 0), P(class 1)>> in percent
    batch,          \* the call's batch argument
    screen,         \* the call's screen argument
    u_pc,           \* "ready" | "returned" | "raised"
    query_indx,     \* the returned list
    u_err,          \* the exception raised, "" when none
    \* ---- random_sampling, called by concurrent callers
    mt,             \* the generator's output stream for each seed (fixed)
    np_random,      \* numpy's process-wide generator: [seed, pos]
    r_pc,           \* per caller: "idle" | "seeded" | "drawn" | "raised"
    r_seed,         \* per caller: the call's seed argument
    indx,           \* per caller: the local indx
    r_err,          \* per caller: the exception raised, "" when none
    \* ---- one LightCurve object
    filters,        \* self.filters
    photometry,     \* self.photometry, per band: its rows and what the fit gives
    bazin_features, \* self.bazin_features
    fit_calls,      \* the bands fit_bazin was called for, by the last fit_bazin_all
    n_calls,        \* how often fit_bazin_all was called on the object
    \* ---- fit_bazin_samples
    lc_list,        \* the light-curve files of the directory, in processing order
    b_pc,           \* "start" | "loop" | "done" | "crashed"
    b_next,         \* position in lc_list of the next file of the loop
    features_file,  \* the lines of the output file
    count_surv,     \* the survivor count
    processed       \* the LightCurve objects fit_bazin_all has completed on

argvars == <<test_ids, queryable_ids, batch, screen>>
uvars == <<class_prob, u_pc, query_indx, u_err>>
rvars == <<mt, np_random, r_pc, r_seed, indx, r_err>>
fvars == <<filters, photometry, bazin_features, fit_calls, n_calls>>
bvars == <<lc_list, b_pc, b_next, features_file, count_surv, processed>>
vars == <<argvars, uvars, rvars, fvars, bvars>>

-----------------------------------------------------------------------------
(* Bounds of the model *)

MaxPool == 3
MaxBatch == 2
MaxRandPool == 2
MaxBands == 2
MaxRows == 5
MaxCalls == 2
MaxFiles == 2

(* Input alphabets *)

ProbVals == {5, 10, 40, 50, 60}
ProbRows == {<<100 - p, p>> : p \in ProbVals}
PoolIds(n) == [i \in 1..n |-> 10 * i]

\* the example call of the documentation: four rows, two of them queryable
ExampleClassProb == <<(<<90, 10>>), (<<50, 50>>), (<<60, 40>>), (<<95, 5>>)>>
ExampleTestIds == <<10, 20, 30, 40>>
ExampleQueryableIds == {10, 30}

-----------------------------------------------------------------------------
(* Helpers standing for Python and numpy primitives *)

Abs(x) == IF x < 0 THEN -x ELSE x

Min(a, b) == IF a < b THEN a ELSE b

\* s[:k] of a Python list, for k >= 0
Take(s, k) == SubSeq(s, 1, Min(k, Len(s)))

\* a[mask] of a numpy array with a boolean mask of the same length
RECURSIVE Mask(_, _)
Mask(a, flag) ==
    IF a = <<>> THEN <<>>
    ELSE (IF Head(flag) THEN <<Head(a)>> ELSE <<>>) \o Mask(Tail(a), Tail(flag))

\* the permutations of the row indices 0..n-1, as sequences
PermTable ==
    [n \in 0..(MaxPool + Len(ExampleTestIds)) |->
        {o \in [1..n -> 0..(n - 1)] :
            \A i, j \in 1..n : i # j => o[i] # o[j]}]

-----------------------------------------------------------------------------
(* Each specification explores one part of the program; these fix the       *)
(* variables of the parts it leaves alone.                                  *)

Callers == {"A", "B"}
Seeds == {7, 42}

\* the variables of uncertainty_sampling while another part is explored
UIdle ==
    /\ class_prob = <<>>
    /\ u_pc = "off"
    /\ query_indx = <<>>
    /\ u_err = ""

\* the variables of random_sampling while another part is explored
RIdle ==
    /\ mt = <<>>
    /\ np_random = [seed |-> 0, pos |-> 0]
    /\ r_pc = [c \in Callers |-> "off"]
    /\ r_seed = [c \in Callers |-> 0]
    /\ indx = [c \in Callers |-> <<>>]
    /\ r_err = [c \in Callers |-> ""]

\* the arguments of the query strategies
ArgIdle ==
    /\ test_ids = <<>>
    /\ queryable_ids = {}
    /\ batch = 0
    /\ screen = FALSE

\* the LightCurve object
FIdle ==
    /\ filters = <<>>
    /\ photometry = <<>>
    /\ bazin_features = <<>>
    /\ fit_calls = <<>>
    /\ n_calls = 0

\* the batch run
BIdle ==
    /\ lc_list = <<>>
    /\ b_pc = "off"
    /\ b_next = 0
    /\ features_file = <<>>
    /\ count_surv = 0
    /\ processed = <<>>

-----------------------------------------------------------------------------
(* uncertainty_sampling *)

Boundary == 50

\* dist = abs(class_prob[:, 1] - 0.5)
Dist(cp) == [i \in 1..Len(cp) |-> Abs(cp[i][2] - Boundary)]

\* order = dist.argsort(): numpy's default kind is 'quicksort', which is not
\* stable, so any permutation that puts dist in ascending order may come out.
Argsort(dist) ==
    {o \in PermTable[Len(dist)] :
        \A k \in 1..(Len(dist) - 1) : dist[o[k] + 1] <= dist[o[k + 1] + 1]}

\* flag = pd.Series(test_ids[order]).isin(queryable_ids)
\* (variant: the isin test left out, every row flagged)
FlagAll(ids, order, qids) == [k \in 1..Len(order) |-> TRUE]
Flag(ids, order, qids) == [k \in 1..Len(order) |-> ids[order[k] + 1] \in qids]

\* final_order = order[flag]
FinalOrder(ids, order, qids) == Mask(order, Flag(ids, order, qids))

\* the screen block reads final_order[0]: IndexError on an empty final_order
ScreenFails(scr, final_order) == scr /\ final_order = <<>>

UncertaintySampling ==
    /\ u_pc = "ready"
    /\ \E b \in 0..MaxBatch, scr \in BOOLEAN, order \in Argsort(Dist(class_prob)) :
         LET final_order == FinalOrder(test_ids, order, queryable_ids)
         IN /\ batch' = b
            /\ screen' = scr
            /\ IF ScreenFails(scr, final_order)
               THEN /\ u_pc' = "raised"
                    /\ u_err' = "IndexError"
                    /\ query_indx' = <<>>
               ELSE /\ u_pc' = "returned"
                    /\ u_err' = ""
                    /\ query_indx' = Take(final_order, b)
    /\ UNCHANGED <<test_ids, queryable_ids, class_prob>>
    /\ UNCHANGED <<rvars, fvars, bvars>>

\* any pool of up to MaxPool rows, or the example pool
UInit ==
    /\ \/ \E n \in 1..MaxPool :
            /\ test_ids = PoolIds(n)
            /\ class_prob \in [1..n -> ProbRows]
            /\ queryable_ids \in SUBSET {test_ids[i] : i \in 1..n}
       \/ /\ test_ids = ExampleTestIds
          /\ class_prob = ExampleClassProb
          /\ queryable_ids = ExampleQueryableIds
    /\ batch = 0
    /\ screen = FALSE
    /\ u_pc = "ready"
    /\ query_indx = <<>>
    /\ u_err = ""
    /\ RIdle
    /\ FIdle
    /\ BIdle

UNext == UncertaintySampling

SpecUncertainty == UInit /\ [][UNext]_vars

-----------------------------------------------------------------------------
(* random_sampling *)


\* np.random.seed(seed): the process-wide generator restarts at the seed's stream
NpRandomSeed(seed) == [seed |-> seed, pos |-> 0]

\* np.random.randint(low=0, high=n, size=n) on generator state g: the next n
\* outputs of the stream, each in 0..n-1, drawn independently (with replacement)
NpRandomRandint(g, n) == [j \in 1..n |-> mt[g.seed][g.pos + j]]

\* line 105, with the call's arguments bound
RandomSamplingSeed(c) ==
    /\ r_pc[c] = "idle"
    /\ \E seed \in Seeds :
         /\ r_seed' = [r_seed EXCEPT ![c] = seed]
         /\ np_random' = NpRandomSeed(seed)
    /\ r_pc' = [r_pc EXCEPT ![c] = "seeded"]
    /\ UNCHANGED <<mt, indx, r_err>>
    /\ UNCHANGED <<argvars, uvars, fvars, bvars>>

\* line 106
RandomSamplingRandint(c) ==
    /\ r_pc[c] = "seeded"
    /\ indx' = [indx EXCEPT ![c] = NpRandomRandint(np_random, Len(test_ids))]
    /\ np_random' = [np_random EXCEPT !.pos = @ + Len(test_ids)]
    /\ r_pc' = [r_pc EXCEPT ![c] = "drawn"]
    /\ UNCHANGED <<mt, r_seed, r_err>>
    /\ UNCHANGED <<argvars, uvars, fvars, bvars>>

\* line 109 reads test_ids[order]; no `order` is bound in random_sampling or in
\* the module, so the call ends here with NameError, before flag, the screen
\* block and the return are reached.
RandomSamplingFilter(c) ==
    /\ r_pc[c] = "drawn"
    /\ r_pc' = [r_pc EXCEPT ![c] = "raised"]
    /\ r_err' = [r_err EXCEPT ![c] = "NameError"]
    /\ UNCHANGED <<mt, np_random, r_seed, indx>>
    /\ UNCHANGED <<argvars, uvars, fvars, bvars>>

RInit ==
    /\ \E n \in 1..MaxRandPool :
         /\ test_ids = PoolIds(n)
         /\ queryable_ids \in SUBSET {test_ids[i] : i \in 1..n}
         /\ mt \in [Seeds -> [1..(2 * n) -> 0..(n - 1)]]
    /\ batch \in 0..MaxBatch
    /\ screen \in BOOLEAN
    /\ np_random = [seed |-> 0, pos |-> 0]
    /\ r_pc = [c \in Callers |-> "idle"]
    /\ r_seed = [c \in Callers |-> 0]
    /\ indx = [c \in Callers |-> <<>>]
    /\ r_err = [c \in Callers |-> ""]
    /\ UIdle
    /\ FIdle
    /\ BIdle

RNext ==
    \E c \in Callers :
        \/ RandomSamplingSeed(c)
        \/ RandomSamplingRandint(c)
        \/ RandomSamplingFilter(c)

SpecRandom == RInit /\ [][RNext]_vars

-----------------------------------------------------------------------------
(* LightCurve.fit_bazin and LightCurve.fit_bazin_all *)

\* the SNPCC bands, blue to red
Bands == <<"g", "r", "i", "z">>

MinRows == 4
NParams == 5
Missing == "None"

\* what the fitter can give for one band's data: [a, b, t0, tfall, trise], each
\* shown as str() shows the float
GoodFit == <<"1.0", "2.0", "3.0", "4.0", "5.0">>
NonFinite == {"nan", "inf", "-inf"}
FitOutcomes ==
    {GoodFit} \cup {[GoodFit EXCEPT ![k] = v] : k \in 1..NParams, v \in NonFinite}

\* one band of a photometry table: the number of its rows and, standing for
\* their mjd and flux values, what fit_scipy gives for them
BandData ==
    {d \in [rows : 0..MaxRows, fit : FitOutcomes] :
        d.rows <= MinRows => d.fit = GoodFit}

\* sum(filter_flag), with filter_flag = self.photometry['band'] == band
SumFilterFlag(phot, band) == phot[band].rows

\* bazin.fit_scipy(time - time[0], flux): the 5 best-fit parameters, as they
\* come out of the optimiser
FitScipy(data) == data.fit

FitBazin(phot, band) == FitScipy(phot[band])

\* sum(filter_flag) > 4
\* (variant: >= in place of >)
NeedsFitFrom4(phot, band) == SumFilterFlag(phot, band) >= MinRows
NeedsFit(phot, band) == SumFilterFlag(phot, band) > MinRows

\* sum([str(item) == 'nan' for item in best_fit]) == 0
NoNan(best_fit) == \A k \in 1..Len(best_fit) : best_fit[k] # "nan"

\* for i in range(5): self.bazin_features.append('None')
NoneGroup == [i \in 1..NParams |-> Missing]

\* what one pass of the loop appends to self.bazin_features
BandFeatures(phot, band) ==
    IF NeedsFit(phot, band)
    THEN LET best_fit == FitBazin(phot, band)
         IN IF NoNan(best_fit) THEN best_fit ELSE NoneGroup
    ELSE NoneGroup

RECURSIVE AppendBands(_, _, _)
AppendBands(features, bands, phot) ==
    IF bands = <<>> THEN features
    ELSE AppendBands(features \o BandFeatures(phot, Head(bands)), Tail(bands), phot)

\* self.bazin_features = []
\* (variant: the list not emptied)
KeepFeatures(old) == old
ResetFeatures(old) == <<>>

\* the bands the loop calls self.fit_bazin for, in order
RECURSIVE FitBazinCalls(_, _)
FitBazinCalls(bands, phot) ==
    IF bands = <<>> THEN <<>>
    ELSE (IF NeedsFit(phot, Head(bands)) THEN <<Head(bands)>> ELSE <<>>)
            \o FitBazinCalls(Tail(bands), phot)

\* self.bazin_features after fit_bazin_all()
FitBazinAllFeatures(old, bands, phot) == AppendBands(ResetFeatures(old), bands, phot)

FitBazinAll ==
    /\ n_calls < MaxCalls
    /\ bazin_features' = FitBazinAllFeatures(bazin_features, filters, photometry)
    /\ fit_calls' = FitBazinCalls(filters, photometry)
    /\ n_calls' = n_calls + 1
    /\ UNCHANGED <<filters, photometry>>
    /\ UNCHANGED <<argvars, uvars, rvars, bvars>>

\* the ordered sub-lists of Bands of at most MaxBands bands
RECURSIVE SubLists(_)
SubLists(s) ==
    IF s = <<>> THEN {<<>>}
    ELSE LET rest == SubLists(Tail(s))
         IN rest \cup {<<Head(s)>> \o t : t \in rest}
FilterLists == {f \in SubLists(Bands) : Len(f) <= MaxBands}

\* LightCurve(), then filters and photometry set to any record
FInit ==
    /\ filters \in FilterLists
    /\ photometry \in [{filters[k] : k \in 1..Len(filters)} -> BandData]
    /\ bazin_features = <<>>
    /\ fit_calls = <<>>
    /\ n_calls = 0
    /\ ArgIdle
    /\ UIdle
    /\ RIdle
    /\ BIdle

FNext == FitBazinAll

SpecFit == FInit /\ [][FNext]_vars

-----------------------------------------------------------------------------
(* LightCurve.load_snpcc_lc and fit_bazin_samples *)

snii == {"2", "3", "4", "12", "15", "17", "19", "20", "21", "24", "25", "26",
         "27", "30", "31", "32", "33", "34", "35", "36", "37", "38", "39", "40",
         "41", "42", "43", "44"}

snibc == {"1", "5", "6", "7", "8", "9", "10", "11", "13", "14", "16", "18",
          "22", "23", "29", "45", "28"}

\* the SIM_NON1a branch of load_snpcc_lc; "ValueError" stands for the raise
SnType(code) ==
    IF code \in snibc THEN "Ibc"
    ELSE IF code \in snii THEN "II"
    ELSE IF code = "0" THEN "Ia"
    ELSE "ValueError"

\* the LightCurve object after load_snpcc_lc(file) has returned
LoadSnpccLc(file) ==
    [id |-> file.id, sncode |-> file.sncode, sntype |-> SnType(file.sncode),
     filters |-> Bands, photometry |-> file.photometry, bazin_features |-> <<>>]

\* the header line of the features file
Header ==
    "id redshift type code sample gA gB gt0 gtfall gtrise rA rB rt0 rtfall rtrise iA iB it0 itfall itrise zA zB zt0 ztfall ztrise"

\* if 'None' not in lc.bazin_features
\* (variant: only the first band looked at)
SurvivesGroup1(features) == \A k \in 1..NParams : features[k] # Missing
Survives(features) == \A k \in 1..Len(features) : features[k] # Missing

\* the line written for a surviving object (redshift and sample left out)
FeatureRow(lc) ==
    [id |-> lc.id, type |-> lc.sntype, code |-> lc.sncode,
     features |-> lc.bazin_features]

\* lines 223-229: the counter is set to 0 and the file is opened with 'w' for
\* the header
FitBazinSamplesStart ==
    /\ b_pc = "start"
    /\ count_surv' = 0
    /\ features_file' = <<Header>>
    /\ b_next' = 1
    /\ b_pc' = "loop"
    /\ UNCHANGED <<lc_list, processed>>
    /\ UNCHANGED <<argvars, uvars, rvars, fvars>>

\* lines 231-251: one pass of the loop over lc_list. The ValueError of
\* load_snpcc_lc is caught nowhere, so it ends fit_bazin_samples.
FitBazinSamplesFile ==
    /\ b_pc = "loop"
    /\ b_next <= Len(lc_list)
    /\ LET file == lc_list[b_next]
           loaded == LoadSnpccLc(file)
           lc == [loaded EXCEPT !.bazin_features =
                     FitBazinAllFeatures(@, loaded.filters, loaded.photometry)]
       IN IF loaded.sntype = "ValueError"
          THEN /\ b_pc' = "crashed"
               /\ UNCHANGED <<b_next, features_file, count_surv, processed>>
          ELSE /\ processed' = Append(processed, lc)
               /\ IF Survives(lc.bazin_features)
                  THEN /\ count_surv' = count_surv + 1
                       /\ features_file' = Append(features_file, FeatureRow(lc))
                  ELSE UNCHANGED <<count_surv, features_file>>
               /\ b_next' = b_next + 1
               /\ b_pc' = "loop"
    /\ UNCHANGED lc_list
    /\ UNCHANGED <<argvars, uvars, rvars, fvars>>

\* line 253, after the last file
FitBazinSamplesEnd ==
    /\ b_pc = "loop"
    /\ b_next > Len(lc_list)
    /\ b_pc' = "done"
    /\ UNCHANGED <<lc_list, b_next, features_file, count_surv, processed>>
    /\ UNCHANGED <<argvars, uvars, rvars, fvars>>

\* the light-curve files of the model: a simulation code and a photometry table
\* that is complete in every band or defective in one
SimCodes == {"0", "3", "28", "46"}
FullBand == [rows |-> MinRows + 1, fit |-> GoodFit]
Defects ==
    {<<"g", [rows |-> MinRows, fit |-> GoodFit]>>,
     <<"r", [rows |-> MinRows + 1, fit |-> [GoodFit EXCEPT ![3] = "nan"]]>>,
     <<"i", [rows |-> MinRows + 1, fit |-> [GoodFit EXCEPT ![1] = "inf"]]>>,
     <<"z", [rows |-> 0, fit |-> GoodFit]>>}
BandSet == {Bands[k] : k \in 1..Len(Bands)}
Tables ==
    {[b \in BandSet |-> FullBand]}
        \cup {[b \in BandSet |-> IF b = d[1] THEN d[2] ELSE FullBand] : d \in Defects}

\* the directory listings: SNID k is the k-th file
Listings ==
    UNION {[1..n -> [sncode : SimCodes, photometry : Tables]] : n \in 0..MaxFiles}
WithIds(l) ==
    [k \in 1..Len(l) |-> [id |-> k, sncode |-> l[k].sncode, photometry |-> l[k].photometry]]

BInit ==
    /\ \E l \in Listings : lc_list = WithIds(l)
    /\ b_pc = "start"
    /\ b_next = 0
    /\ features_file = <<>>
    /\ count_surv = 0
    /\ processed = <<>>
    /\ ArgIdle
    /\ UIdle
    /\ RIdle
    /\ FIdle

BNext ==
    \/ FitBazinSamplesStart
    \/ FitBazinSamplesFile
    \/ FitBazinSamplesEnd

SpecBatch == BInit /\ [][BNext]_vars

-----------------------------------------------------------------------------
(* Properties of uncertainty_sampling *)

\* the score |class_prob[i][1] - 0.5| of row i (0-based), in percent
Score(i) == Abs(class_prob[i + 1][2] - 50)

\* the rows of the pool whose id is queryable
QueryableRows == {i \in 0..(Len(test_ids) - 1) : test_ids[i + 1] \in queryable_ids}

\* the example pool of the specification
ExamplePool ==
    /\ class_prob = ExampleClassProb
    /\ test_ids = ExampleTestIds
    /\ queryable_ids = ExampleQueryableIds

\* C2 (as amended): a call that returns gives ROW INDICES, not ids: the first
\* batch of the queryable rows in ascending score order. The list has
\* min(batch, number of queryable rows) entries, without repetition, each the
\* index of a row whose id is queryable, in non-decreasing score, and no
\* queryable row left out scores below a returned one; on the example pool with
\* batch 2 it is [2, 0], the rows of ids 30 and 10. A call with screen=False
\* always returns.
C2_RowIndices ==
    /\ (u_pc = "returned") =>
         /\ Len(query_indx) = Min(batch, Cardinality(QueryableRows))
         /\ Len(query_indx) <= batch
         /\ \A k \in 1..Len(query_indx) : query_indx[k] \in QueryableRows
         /\ \A j, k \in 1..Len(query_indx) : j < k =>
                /\ query_indx[j] # query_indx[k]
                /\ Score(query_indx[j]) <= Score(query_indx[k])
         /\ \A i \in QueryableRows :
                (\A k \in 1..Len(query_indx) : query_indx[k] # i) =>
                    \A k \in 1..Len(query_indx) : Score(query_indx[k]) <= Score(i)
         /\ (ExamplePool /\ batch = 2) => query_indx = <<2, 0>>
    /\ (u_pc = "raised") => screen

\* C2 witness: the example call has returned
C2_Witness == u_pc = "returned" /\ ExamplePool /\ batch = 2 /\ query_indx = <<2, 0>>

\* C2 (as stated): the returned list holds ids, none outside queryable_ids, and
\* is [30, 10] on the example pool
C2_ReturnsIds ==
    (u_pc = "returned") =>
        /\ \A k \in 1..Len(query_indx) : query_indx[k] \in queryable_ids
        /\ (ExamplePool /\ batch = 2) => query_indx = <<30, 10>>

\* C5 (as stated, for uncertainty_sampling): with batch = 0 or no queryable pool
\* member the call does not fail and returns the empty list, whatever screen is
C5_EmptyNeverFails ==
    (u_pc # "ready" /\ (batch = 0 \/ QueryableRows = {})) =>
        (u_pc = "returned" /\ query_indx = <<>>)

\* C9 (as stated): rows of equal score come out in their original row order
C9_StableTies ==
    (u_pc = "returned") =>
        \A j, k \in 1..Len(query_indx) :
            (j < k /\ Score(query_indx[j]) = Score(query_indx[k])) =>
                query_indx[j] < query_indx[k]

-----------------------------------------------------------------------------
(* Properties of random_sampling *)

Drawn(c) == r_pc[c] \in {"drawn", "raised"}

\* C3 (as stated): the indices a call draws are a permutation of the pool's row
\* indices, and a call comes back with its selection instead of failing
C3_DrawsPermutation ==
    \A c \in Callers :
        /\ Drawn(c) => indx[c] \in PermTable[Len(test_ids)]
        /\ r_pc[c] # "raised"

\* C4 (as stated): the generator state a call draws from depends on the call's
\* seed alone, so two calls with the same arguments make the same draws,
\* whatever other calls ran before or between them
C4_SameSeedSameDraws ==
    \A a, b \in Callers :
        (Drawn(a) /\ Drawn(b) /\ r_seed[a] = r_seed[b]) => indx[a] = indx[b]

-----------------------------------------------------------------------------
(* Properties of fit_bazin_all *)

\* the k-th band's 5 slots of the feature vector
Group(features, k) == SubSeq(features, 5 * (k - 1) + 1, 5 * k)

AllMissing(g) == Len(g) = 5 /\ \A j \in 1..5 : g[j] = "None"

\* C1: once fit_bazin_all has run, however often, bazin_features has exactly
\* 5 * len(filters) entries
C1_FixedLength ==
    (n_calls >= 1) => Len(bazin_features) = 5 * Len(filters)

\* C1 witness: a second call on a record with a fitted and a skipped band
C1_Witness ==
    /\ n_calls >= 2
    /\ Len(filters) >= 2
    /\ \E k \in 1..Len(filters) : AllMissing(Group(bazin_features, k))
    /\ \E k \in 1..Len(filters) : Group(bazin_features, k) = GoodFit

\* C6: after fit_bazin_all, a band with 4 or fewer rows was not handed to the
\* fitter and its 5 slots are all the 'None' marker; a band with 5 or more rows
\* was handed to the fitter
C6_SparseBandsMissing ==
    (n_calls >= 1) =>
        \A k \in 1..Len(filters) :
            LET band == filters[k]
                called == \E j \in 1..Len(fit_calls) : fit_calls[j] = band
            IN /\ (photometry[band].rows <= 4) =>
                      (~called /\ AllMissing(Group(bazin_features, k)))
               /\ (photometry[band].rows >= 5) => called

\* C6 witness: a band with exactly 4 rows next to a band with exactly 5
C6_Witness ==
    /\ n_calls >= 1
    /\ \E j, k \in 1..Len(filters) :
         /\ photometry[filters[j]].rows = 4
         /\ AllMissing(Group(bazin_features, j))
         /\ photometry[filters[k]].rows = 5
         /\ fit_calls = <<filters[k]>>

\* C7 (as stated): for a band with more than 4 rows, the 5 slots are all 'None'
\* if any fitted parameter is NaN, +infinity or -infinity, and are the 5 fitted
\* parameters otherwise; so no slot holds a non-finite number
C7_AllOrNothing ==
    (n_calls >= 1) =>
        /\ \A k \in 1..Len(filters) :
             LET data == photometry[filters[k]]
                 finite == \A j \in 1..5 : data.fit[j] \notin {"nan", "inf", "-inf"}
             IN (data.rows > 4) =>
                    Group(bazin_features, k) = (IF finite THEN data.fit ELSE NoneGroup)
        /\ \A j \in 1..Len(bazin_features) :
             bazin_features[j] \notin {"nan", "inf", "-inf"}

-----------------------------------------------------------------------------
(* Properties of fit_bazin_samples *)

Recognized(code) == code = "0" \/ code \in snii \/ code \in snibc

\* C8 (as stated): a record of unrecognized simulation code gets no row and does
\* not halt the run: once the run has ended, every file of recognized code was
\* processed
C8_RunGoesOn ==
    /\ (b_pc \in {"done", "crashed"}) =>
          \A k \in 1..Len(lc_list) :
              Recognized(lc_list[k].sncode) =>
                  \E j \in 1..Len(processed) : processed[j].id = lc_list[k].id
    /\ \A k \in 2..Len(features_file) : Recognized(features_file[k].code)

NoMissing(lc) == \A j \in 1..Len(lc.bazin_features) : lc.bazin_features[j] # "None"

RECURSIVE Survivors(_)
Survivors(objs) ==
    IF objs = <<>> THEN <<>>
    ELSE (IF NoMissing(Head(objs)) THEN <<Head(objs)>> ELSE <<>>)
            \o Survivors(Tail(objs))

\* C10: at every point of the run after the header is written, the file is the
\* header line followed by one row for each processed object without a 'None'
\* slot, in processing order, and the survivor count is the number of those rows
C10_RowsAreSurvivors ==
    (b_pc \in {"loop", "done", "crashed"}) =>
        LET surv == Survivors(processed)
        IN /\ features_file # <<>>
           /\ features_file[1] = Header
           /\ Len(features_file) = 1 + Len(surv)
           /\ \A k \in 1..Len(surv) :
                /\ features_file[k + 1].id = surv[k].id
                /\ features_file[k + 1].features = surv[k].bazin_features
           /\ count_surv = Len(features_file) - 1

\* C10 witness: a finished run with a survivor after an object that was dropped
C10_Witness ==
    /\ b_pc = "done"
    /\ Len(processed) = 2
    /\ ~NoMissing(processed[1])
    /\ NoMissing(processed[2])
    /\ Len(features_file) = 2
    /\ features_file[2].id = 2
    /\ count_surv = 1

=============================================================================
